---------------------------- MODULE Spec2Model ----------------------------
(***************************************************************************)
(* A model of src/main.py (class Firmware): the search for the raw LZMA    *)
(* stream around a nominal offset, the slicing of the SquashFS segment,    *)
(* the materialization of the SquashFS entries onto the host file system   *)
(* and the pipeline extract_firmware that sequences them.                  *)
(*                                                                         *)
(* Byte strings are kept run-length encoded: a byte string is a sequence   *)
(* of runs [b |-> byte, n |-> count] with n >= 1 and adjacent runs of      *)
(* different bytes, so that equal byte strings are equal values and the    *)
(* program's real offsets (megabytes) stay within reach.  Unpack gives the *)
(* byte-by-byte sequence a run list stands for.                            *)
(***************************************************************************)
EXTENDS Integers, Sequences, FiniteSets, TLC

VARIABLES
    pc,                 \* position of the program
    firmware_data,      \* the firmware buffer read from the input file
    offset,             \* extract_lzma_section: parameter offset
    uncompressed_size,  \* extract_lzma_section: parameter uncompressed_size
    cand,               \* extract_lzma_section: index of the candidate offset of the loop
    decoded,            \* the decoder's answers so far: slice -> outcome
    lzma_data,          \* result of extract_lzma_section (None or the payload)
    sq_offset,          \* extract_squashfs_section: parameter offset
    sq_size,            \* extract_squashfs_section: parameter size
    squashfs_data,      \* result of extract_squashfs_section
    log,                \* the lines written by _log, in order
    fs,                 \* the host file system: location -> node
    symlinks_ok,        \* whether the host lets the program create symbolic links
    image,              \* what the codec reads from the container: None, Malformed or the entries
    idx,                \* extract_squashfs_contents: index of the entry of the loop
    ret,                \* return value of extract_squashfs_contents (None before it returns)
    processed,          \* per entry the loop has taken up in this run: what happened to it
    run,                \* number of the run of the program over this output directory
    fs_done,            \* the file system as the run before left it (empty in the first run)
    result,             \* return value of extract_firmware (None before it returns)
    firmware_file       \* the input file: its bytes, or Unreadable

vars == <<pc, firmware_data, offset, uncompressed_size, cand, decoded, lzma_data,
          sq_offset, sq_size, squashfs_data, log, fs, symlinks_ok, image, idx, ret,
          processed, run, fs_done, result, firmware_file>>

locate_vars == <<firmware_data, offset, uncompressed_size, cand, decoded, lzma_data>>
slice_vars == <<sq_offset, sq_size, squashfs_data>>
disk_vars == <<fs, symlinks_ok, image, idx, ret, processed, run, fs_done>>

\* Python's None, True and False where a variable holds one of the three
None == "None"
True == "True"
False == "False"

\* the result of extract_lzma_section: None, or the bytes
NoBytes == [none |-> TRUE, data |-> <<>>]
Bytes(d) == [none |-> FALSE, data |-> d]

Min(a, b) == IF a < b THEN a ELSE b
Max(a, b) == IF a > b THEN a ELSE b

---------------------------------------------------------------------------
(* Byte strings. *)

Run(b, n) == [b |-> b, n |-> n]

RECURSIVE BLen(_)
\* len(s)
BLen(s) == IF s = <<>> THEN 0 ELSE s[1].n + BLen(Tail(s))

RECURSIVE Unpack(_)
\* the bytes of s, one element per byte
Unpack(s) == IF s = <<>> THEN <<>>
             ELSE [k \in 1..s[1].n |-> s[1].b] \o Unpack(Tail(s))

RECURSIVE Drop(_, _)
\* s without its first k bytes (0 <= k)
Drop(s, k) == IF k = 0 \/ s = <<>> THEN s
              ELSE IF s[1].n <= k THEN Drop(Tail(s), k - s[1].n)
              ELSE <<[b |-> s[1].b, n |-> s[1].n - k]>> \o Tail(s)

RECURSIVE Take(_, _)
\* the first k bytes of s (0 <= k)
Take(s, k) == IF k = 0 \/ s = <<>> THEN <<>>
              ELSE IF s[1].n <= k THEN <<s[1]>> \o Take(Tail(s), k - s[1].n)
              ELSE <<[b |-> s[1].b, n |-> k]>>

\* Python's normalisation of a slice bound: a negative bound counts from the
\* end, and every bound is clamped to 0..len.
SliceIndex(k, len) == IF k < 0 THEN Max(k + len, 0) ELSE Min(k, len)

\* s[start:stop]
PySlice(s, start, stop) ==
    LET len == BLen(s)
        lo  == SliceIndex(start, len)
        hi  == SliceIndex(stop, len)
    IN  IF hi <= lo THEN <<>> ELSE Take(Drop(s, lo), hi - lo)

\* s[start:]
PySliceFrom(s, start) == Drop(s, SliceIndex(start, BLen(s)))

---------------------------------------------------------------------------
(* Bounds of the model. *)

MaxLen == 16        \* SpecLocate: longest buffer
MaxOffset == 14     \* SpecLocate: largest nominal offset
MaxRun == 2         \* SpecSlice: longest run of a buffer
MaxArg == 5         \* SpecSlice: largest offset and size
MaxEntries == 3     \* SpecMaterialize: most entries of an image
PipelineEntries == 1 \* Spec: most entries of an image
MaxRuns == 2        \* SpecMaterialize: runs over the same output directory

---------------------------------------------------------------------------
(* extract_lzma_section *)

\* the five offsets sorted, as a loop over a sorted list would take them
CandidatesAscending(off) == <<off - 13, off - 1, off, off + 1, off + 13>>

\* line 50: the candidate offsets, in the order of the for loop
Candidates(off) == <<off, off - 1, off + 1, off - 13, off + 13>>

\* What LZMADecompressor(...).decompress(slice) can do: raise, or return bytes.
\* No input gives no output; the output of a non-empty slice is empty or a
\* payload, here one whose length tells the slices apart.
DecoderOutcomes(slice) ==
    IF slice = <<>> THEN {[raised |-> FALSE, data |-> <<>>]}
    ELSE {[raised |-> TRUE, data |-> <<>>],
          [raised |-> FALSE, data |-> <<>>],
          [raised |-> FALSE, data |-> <<[b |-> 170, n |-> BLen(slice)]>>]}

\* One iteration of the for loop: slice, decode, return the first non-empty
\* result; an exception or an empty result goes on to the next candidate.
TryOffset ==
    /\ pc = "lzma"
    /\ cand <= Len(Candidates(offset))
    /\ LET test_offset == Candidates(offset)[cand]
           lzma_slice  == PySliceFrom(firmware_data, test_offset)
       IN \E out \in DecoderOutcomes(lzma_slice) :
            /\ lzma_slice \in DOMAIN decoded => out = decoded[lzma_slice]
            /\ decoded' = [s \in DOMAIN decoded \cup {lzma_slice} |->
                             IF s = lzma_slice THEN out ELSE decoded[s]]
            /\ IF ~out.raised /\ out.data # <<>>
               THEN /\ lzma_data' = Bytes(out.data)
                    /\ log' = log \o <<[title |-> "Trying offset", value |-> test_offset],
                                       [title |-> "Successfully decompressed", value |-> test_offset]>>
                    /\ pc' = "lzma_ret"
                    /\ cand' = cand
               ELSE /\ lzma_data' = lzma_data
                    /\ log' = Append(log, [title |-> "Trying offset", value |-> test_offset])
                    /\ pc' = pc
                    /\ cand' = cand + 1
    /\ UNCHANGED <<firmware_data, offset, uncompressed_size, slice_vars, disk_vars, result, firmware_file>>

\* The loop is exhausted: log the error and return None.
LocateNotFound ==
    /\ pc = "lzma"
    /\ cand > Len(Candidates(offset))
    /\ lzma_data' = NoBytes
    /\ log' = Append(log, [title |-> "Could not find valid LZMA data around specified offset", value |-> ""])
    /\ pc' = "lzma_ret"
    /\ UNCHANGED <<firmware_data, offset, uncompressed_size, cand, decoded,
                   slice_vars, disk_vars, result, firmware_file>>

---------------------------------------------------------------------------
(* extract_squashfs_section *)

\* the slice with the size taken for the end: firmware_data[offset:size]
extract_squashfs_section_NoAdd(data, off, size) == PySlice(data, off, size)

\* line 70: firmware_data[offset:offset + size]
extract_squashfs_section(data, off, size) == PySlice(data, off, off + size)

ExtractSection ==
    /\ pc = "slice"
    /\ squashfs_data' = extract_squashfs_section(firmware_data, sq_offset, sq_size)
    /\ log' = Append(log, [title |-> "Extracting SquashFS section", value |-> <<sq_offset, sq_size>>])
    /\ pc' = "slice_ret"
    /\ UNCHANGED <<locate_vars, sq_offset, sq_size, disk_vars, result, firmware_file>>

---------------------------------------------------------------------------
(* Paths.  A path string is a sequence of tokens: the separator "/" and     *)
(* names (".." among them).  A pathlib.Path is [abs, segs].  A location of  *)
(* the host file system is the sequence of names from its root.             *)

RECURSIVE Lstrip(_)
\* str.lstrip('/')
Lstrip(s) == IF s # <<>> /\ s[1] = "/" THEN Lstrip(Tail(s)) ELSE s

\* the segments pathlib keeps of a path string
Segments(s) == SelectSeq(s, LAMBDA t : t # "/" /\ t # ".")

\* Path(s)
ToPath(s) == [abs |-> s # <<>> /\ s[1] = "/", segs |-> Segments(s)]

\* p / s: an absolute s replaces p
Join(p, s) == IF s # <<>> /\ s[1] = "/" THEN ToPath(s)
              ELSE [abs |-> p.abs, segs |-> p.segs \o Segments(s)]

\* p.parent (lexical: ".." is a segment like another)
Parent(p) == IF p.segs = <<>> THEN p
             ELSE [abs |-> p.abs, segs |-> SubSeq(p.segs, 1, Len(p.segs) - 1)]

Cwd == <<"work">>                                   \* the directory the program runs in
output_dir == ToPath(<<"extracted_firmware">>)
extract_dir == Join(output_dir, <<"squashfs_contents">>)
lzma_path == Join(output_dir, <<"extracted_lzma.bin">>)
squashfs_path == Join(output_dir, <<"filesystem.squashfs">>)

---------------------------------------------------------------------------
(* The host file system: fsys maps each existing location to its node,     *)
(* [kind |-> "dir"], [kind |-> "file", data |-> the chunks written] or     *)
(* [kind |-> "link", target |-> path string].                              *)

\* what one write call puts into a file: bytes ('wb') or text ('w')
BytesChunk(d) == [bytes |-> d, text |-> <<>>]
TextChunk(t) == [bytes |-> <<>>, text |-> t]

Up(loc) == IF loc = <<>> THEN loc ELSE SubSeq(loc, 1, Len(loc) - 1)
Put(fsys, loc, node) == [l \in DOMAIN fsys \cup {loc} |-> IF l = loc THEN node ELSE fsys[l]]
Remove(fsys, loc) == [l \in DOMAIN fsys \ {loc} |-> fsys[l]]
Changed(f, g) == {l \in DOMAIN f \cup DOMAIN g :
                    l \notin DOMAIN f \/ l \notin DOMAIN g \/ f[l] # g[l]}

LinkDepth == 2      \* symbolic links followed in one resolution before ELOOP

Ok(loc) == [err |-> "", loc |-> loc]
Err(e, loc) == [err |-> e, loc |-> loc]

RECURSIVE Walk(_, _, _, _, _)
RECURSIVE WalkChild(_, _, _, _, _, _)
RECURSIVE WalkThrough(_, _, _, _, _, _)
\* Path resolution from the existing directory loc through segs.  The result
\* [err, loc] names the location of the last component, which need not
\* exist; every component before it must be a directory, or a link to one.
\* A link in the last place is followed when follow is set.
Walk(fsys, loc, segs, follow, fuel) ==
    IF segs = <<>> THEN Ok(loc)
    ELSE IF Head(segs) = ".." THEN Walk(fsys, Up(loc), Tail(segs), follow, fuel)
    ELSE WalkChild(fsys, loc, Append(loc, Head(segs)), Tail(segs), follow, fuel)

\* the component child of the directory loc, rest being what follows it
WalkChild(fsys, loc, child, rest, follow, fuel) ==
    IF child \notin DOMAIN fsys
    THEN IF rest = <<>> THEN Ok(child) ELSE Err("ENOENT", child)
    ELSE IF fsys[child].kind = "dir"
    THEN IF rest = <<>> THEN Ok(child) ELSE Walk(fsys, child, rest, follow, fuel)
    ELSE IF fsys[child].kind = "file"
    THEN IF rest = <<>> THEN Ok(child) ELSE Err("ENOTDIR", child)
    ELSE IF rest = <<>> /\ ~follow THEN Ok(child)
    ELSE IF fuel = 0 THEN Err("ELOOP", child)
    ELSE WalkThrough(fsys, child, rest, follow, fuel,
                     Walk(fsys, IF fsys[child].target[1] = "/" THEN <<>> ELSE loc,
                          Segments(fsys[child].target), TRUE, fuel - 1))

\* the link child resolved to thru
WalkThrough(fsys, child, rest, follow, fuel, thru) ==
    IF rest = <<>> \/ thru.err # "" THEN thru
    ELSE IF thru.loc \notin DOMAIN fsys THEN Err("ENOENT", child)
    ELSE IF fsys[thru.loc].kind # "dir" THEN Err("ENOTDIR", child)
    ELSE Walk(fsys, thru.loc, rest, follow, fuel)

Resolve(fsys, p, follow) == Walk(fsys, IF p.abs THEN <<>> ELSE Cwd, p.segs, follow, LinkDepth)

\* whether the resolution r found a node, and the node of that kind
Found(fsys, r) == r.err = "" /\ r.loc \in DOMAIN fsys
FoundKind(fsys, r, kind) == r.err = "" /\ r.loc \in DOMAIN fsys /\ fsys[r.loc].kind = kind

\* Path.exists(), Path.is_dir(): both follow links
Exists(fsys, p) == Found(fsys, Resolve(fsys, p, TRUE))
IsDir(fsys, p) == FoundKind(fsys, Resolve(fsys, p, TRUE), "dir")

\* os.lstat: the node at p itself ("none" if there is none)
NodeOf(fsys, r) == IF Found(fsys, r) THEN fsys[r.loc] ELSE [kind |-> "none"]
NodeAt(fsys, p) == NodeOf(fsys, Resolve(fsys, p, FALSE))

\* os.mkdir(p), p resolved to r
OsMkdirAt(fsys, r) ==
    IF r.err # "" THEN [err |-> r.err, fs |-> fsys]
    ELSE IF r.loc \in DOMAIN fsys THEN [err |-> "EEXIST", fs |-> fsys]
    ELSE [err |-> "", fs |-> Put(fsys, r.loc, [kind |-> "dir"])]
OsMkdir(fsys, p) == OsMkdirAt(fsys, Resolve(fsys, p, FALSE))

RECURSIVE Mkdir(_, _, _, _)
RECURSIVE MkdirAfter(_, _, _, _, _)
RECURSIVE MkdirBelow(_, _, _)
\* Path.mkdir(parents=parents, exist_ok=exist_ok):
\*   try: os.mkdir(self)
\*   except FileNotFoundError: (raise unless parents)
\*       self.parent.mkdir(parents=True, exist_ok=True); self.mkdir(parents=False, exist_ok=exist_ok)
\*   except OSError: raise unless exist_ok and self.is_dir()
Mkdir(fsys, p, parents, exist_ok) == MkdirAfter(fsys, p, parents, exist_ok, OsMkdir(fsys, p))

\* after os.mkdir(p) gave r
MkdirAfter(fsys, p, parents, exist_ok, r) ==
    IF r.err = "" THEN r
    ELSE IF r.err = "ENOENT"
    THEN IF ~parents \/ Parent(p) = p THEN r
         ELSE MkdirBelow(p, exist_ok, Mkdir(fsys, Parent(p), TRUE, TRUE))
    ELSE IF ~exist_ok \/ ~IsDir(fsys, p) THEN r
    ELSE [err |-> "", fs |-> fsys]

\* after self.parent.mkdir(...) gave up
MkdirBelow(p, exist_ok, up) ==
    IF up.err # "" THEN up ELSE Mkdir(up.fs, p, FALSE, exist_ok)

\* Path.unlink(), p resolved to r: removes a file or the link itself, never a directory
UnlinkAt(fsys, r) ==
    IF r.err # "" THEN [err |-> r.err, fs |-> fsys]
    ELSE IF r.loc \notin DOMAIN fsys THEN [err |-> "ENOENT", fs |-> fsys]
    ELSE IF fsys[r.loc].kind = "dir" THEN [err |-> "EISDIR", fs |-> fsys]
    ELSE [err |-> "", fs |-> Remove(fsys, r.loc)]
Unlink(fsys, p) == UnlinkAt(fsys, Resolve(fsys, p, FALSE))

\* Path.symlink_to(target), p resolved to r, on a host that does (supported) or
\* does not create links
SymlinkAt(fsys, r, target, supported) ==
    IF ~supported THEN [err |-> "EPERM", fs |-> fsys]
    ELSE IF r.err # "" THEN [err |-> r.err, fs |-> fsys]
    ELSE IF r.loc \in DOMAIN fsys THEN [err |-> "EEXIST", fs |-> fsys]
    ELSE [err |-> "", fs |-> Put(fsys, r.loc, [kind |-> "link", target |-> target])]
SymlinkTo(fsys, p, target, supported) ==
    SymlinkAt(fsys, Resolve(fsys, p, FALSE), target, supported)

\* with open(p, 'w' or 'wb') as f: f.write(chunk) for each of chunks, raising
\* after them when cut is set; p resolved to r, a link at p followed: the file
\* is created or truncated, then written
WriteAt(fsys, r, chunks, cut) ==
    IF r.err # "" THEN [err |-> r.err, fs |-> fsys]
    ELSE IF r.loc \in DOMAIN fsys /\ fsys[r.loc].kind = "dir" THEN [err |-> "EISDIR", fs |-> fsys]
    ELSE [err |-> IF cut THEN "EIO" ELSE "",
          fs |-> Put(fsys, r.loc, [kind |-> "file", data |-> chunks])]
WriteFile(fsys, p, chunks) == WriteAt(fsys, Resolve(fsys, p, TRUE), chunks, FALSE)

---------------------------------------------------------------------------
(* extract_squashfs_contents and _handle_symlink *)

\* what the container holds: no image the codec can open, or the entries of one
Malformed == [malformed |-> TRUE, entries |-> <<>>]
Image(entries) == [malformed |-> FALSE, entries |-> entries]

\* an except clause that reports success
ExceptReturnTrue == [pc |-> "contents_ret", ret |-> True]

\* lines 103-105: what the except clause of extract_squashfs_contents does
Except == [pc |-> "contents_ret", ret |-> False]

\* _handle_symlink, line 115-119, after the unlink gave gone: the link, or the
\* file that stands for it
LinkOrFile(gone, made, back, creating, failed) ==
    IF made.err = "" THEN [fs |-> made.fs, result |-> "linked", log |-> <<creating>>]
    ELSE IF back.err = "" THEN [fs |-> back.fs, result |-> "fallback", log |-> <<creating>>]
    ELSE [fs |-> gone.fs, result |-> "error", log |-> <<creating, failed>>]

\* _handle_symlink, line 113-119, the unlink having given gone
AfterUnlink(fsys, gone, item, target_path, supported, creating, failed) ==
    IF gone.err # "" THEN [fs |-> fsys, result |-> "error", log |-> <<creating, failed>>]
    ELSE LinkOrFile(gone,
                    SymlinkTo(gone.fs, target_path, item.link, supported),
                    WriteFile(gone.fs, target_path,
                              <<TextChunk(<<"Symlink to: ">> \o item.link)>>),
                    creating, failed)

\* The result of _handle_symlink(item, target_path) on the file system fsys:
\* [fs, result, log], result "linked", "fallback" or "error" (logged, not raised).
handle_symlink(fsys, item, target_path, supported) ==
    IF item.bad                                                      \* readlink() raises
    THEN [fs |-> fsys, result |-> "error",
          log |-> <<[title |-> "Error handling symlink", value |-> item.path]>>]
    ELSE AfterUnlink(fsys,
                     IF Exists(fsys, target_path) THEN Unlink(fsys, target_path)
                     ELSE [err |-> "", fs |-> fsys],
                     item, target_path, supported,
                     [title |-> "Creating symlink", value |-> <<item.path, item.link>>],
                     [title |-> "Error handling symlink", value |-> item.path])

\* lines 94-96 having given w
FileResult(w, extracting) ==
    [fs |-> w.fs, result |-> IF w.err = "" THEN "written" ELSE "raised", log |-> <<extracting>>]

\* line 98 having given h
LinkResult(h, extracting) ==
    [fs |-> h.fs, result |-> h.result, log |-> <<extracting>> \o h.log]

\* lines 91-98, the parent directory made (made): by the kind of the item
AfterMkdir(made, item, target_path, supported, extracting) ==
    IF made.err # "" THEN [fs |-> made.fs, result |-> "raised", log |-> <<>>]
    ELSE IF item.kind = "dir" THEN [fs |-> made.fs, result |-> "dir", log |-> <<>>]
    ELSE IF item.kind = "file"
    THEN FileResult(WriteAt(made.fs, Resolve(made.fs, target_path, TRUE), item.blocks, item.bad),
                    extracting)
    ELSE IF item.kind = "symlink"
    THEN LinkResult(handle_symlink(made.fs, item, target_path, supported), extracting)
    ELSE [fs |-> made.fs, result |-> "none", log |-> <<extracting>>]

\* the path the item is written to (lines 87-88)
TargetPath(item) == Join(extract_dir, Lstrip(item.path))

\* The body of the for loop for one item on the file system fsys:
\* [fs, result, log], result "raised" when an exception leaves the body.
process_item(fsys, item, supported) ==
    AfterMkdir(Mkdir(fsys, Parent(TargetPath(item)), TRUE, TRUE), item, TargetPath(item),
               supported, [title |-> "Extracting", value |-> item.path])

\* SquashFsImage.from_file(squashfs_path): the entries the container holds, when
\* the file is there and is not empty
Opened(fsys, r, holds) ==
    IF FoundKind(fsys, r, "file")
       /\ \E k \in DOMAIN fsys[r.loc].data : fsys[r.loc].data[k] # BytesChunk(<<>>)
    THEN holds ELSE Malformed
from_file(fsys, p, holds) == Opened(fsys, Resolve(fsys, p, TRUE), holds)

\* lines 74-85, extract_dir.mkdir(exist_ok=True) having given made
StartWith(made) ==
    /\ fs' = made.fs
    /\ processed' = <<>>
    /\ idx' = 1
    /\ IF made.err # ""
       THEN /\ pc' = Except.pc /\ ret' = Except.ret
            /\ log' = log \o <<[title |-> "Attempting to extract SquashFS contents", value |-> squashfs_path],
                               [title |-> "Error extracting SquashFS contents", value |-> ""]>>
       ELSE IF from_file(made.fs, squashfs_path, image) = Malformed
       THEN /\ pc' = Except.pc /\ ret' = Except.ret
            /\ log' = log \o <<[title |-> "Attempting to extract SquashFS contents", value |-> squashfs_path],
                               [title |-> "Opening SquashFS image", value |-> ""],
                               [title |-> "Error extracting SquashFS contents", value |-> ""]>>
       ELSE /\ pc' = "items" /\ ret' = None
            /\ log' = log \o <<[title |-> "Attempting to extract SquashFS contents", value |-> squashfs_path],
                               [title |-> "Opening SquashFS image", value |-> ""],
                               [title |-> "Extracting files", value |-> ""]>>

\* lines 74-85: create extract_dir, open the image
MaterializeStart ==
    /\ pc = "contents"
    /\ StartWith(Mkdir(fs, extract_dir, FALSE, TRUE))
    /\ UNCHANGED <<locate_vars, slice_vars, symlinks_ok, image, run, fs_done, result, firmware_file>>

\* lines 86-98, the body having given done for item
ItemWith(item, done) ==
    /\ fs' = done.fs
    /\ processed' = Append(processed,
           [item |-> item, result |-> done.result,
            before |-> NodeAt(fs, TargetPath(item)),
            changed |-> Changed(fs, done.fs)])
    /\ IF done.result = "raised"
       THEN /\ pc' = Except.pc /\ ret' = Except.ret
            /\ log' = log \o done.log
                          \o <<[title |-> "Error extracting SquashFS contents", value |-> ""]>>
            /\ idx' = idx
       ELSE /\ pc' = pc /\ ret' = ret
            /\ log' = log \o done.log
            /\ idx' = idx + 1

\* lines 86-98, one iteration; an exception ends the loop in the except clause
ProcessItem ==
    /\ pc = "items"
    /\ idx <= Len(image.entries)
    /\ ItemWith(image.entries[idx], process_item(fs, image.entries[idx], symlinks_ok))
    /\ UNCHANGED <<locate_vars, slice_vars, symlinks_ok, image, run, fs_done, result, firmware_file>>

\* lines 100-101: the loop is exhausted
MaterializeDone ==
    /\ pc = "items"
    /\ idx > Len(image.entries)
    /\ log' = Append(log, [title |-> "SquashFS contents extracted successfully", value |-> ""])
    /\ ret' = True
    /\ pc' = "contents_ret"
    /\ UNCHANGED <<locate_vars, slice_vars, fs, symlinks_ok, image, idx, processed, run, fs_done, result, firmware_file>>

---------------------------------------------------------------------------
(* extract_firmware *)

\* the input file: cannot be read, or its bytes
Unreadable == [readable |-> FALSE, data |-> <<>>]
File(d) == [readable |-> TRUE, data |-> d]

LZMA_OFFSET == 10264
UNCOMPRESSED_SIZE == 8861280
SQUASHFS_OFFSET == 2751522
SQUASHFS_SIZE == 5159718

\* lines 124-135: read the input file; on success call extract_lzma_section
ReadFirmware ==
    /\ pc = "start"
    /\ IF ~firmware_file.readable
       THEN /\ log' = log \o <<[title |-> "Starting extraction of firmware", value |-> ""],
                               [title |-> "Error reading firmware file", value |-> ""]>>
            /\ result' = False
            /\ pc' = "done"
            /\ UNCHANGED <<firmware_data, offset, uncompressed_size>>
       ELSE /\ firmware_data' = firmware_file.data
            /\ log' = log \o <<[title |-> "Starting extraction of firmware", value |-> ""],
                               [title |-> "Successfully read firmware", value |-> BLen(firmware_file.data)],
                               [title |-> "Attempting to extract LZMA section", value |-> LZMA_OFFSET]>>
            /\ offset' = LZMA_OFFSET
            /\ uncompressed_size' = UNCOMPRESSED_SIZE
            /\ result' = result
            /\ pc' = "lzma"
    /\ UNCHANGED <<cand, decoded, lzma_data, slice_vars, disk_vars, firmware_file>>

\* line 138-140 having given w: an exception of open or write is not caught
Saved(w, title, path, next) ==
    /\ fs' = w.fs
    /\ pc' = IF w.err = "" THEN next ELSE "crashed"
    /\ log' = IF w.err = "" THEN Append(log, [title |-> title, value |-> path]) ELSE log

\* lines 136-142 as they would be if a missing payload ended the run
SaveLzmaOrStop ==
    /\ pc = "lzma_ret"
    /\ IF ~lzma_data.none /\ lzma_data.data # <<>>
       THEN /\ Saved(WriteFile(fs, lzma_path, <<BytesChunk(lzma_data.data)>>),
                     "LZMA section saved", lzma_path, "squashfs")
            /\ result' = result
       ELSE /\ fs' = fs
            /\ pc' = "done"
            /\ result' = False
            /\ log' = Append(log, [title |-> "LZMA extraction failed", value |-> ""])
    /\ UNCHANGED <<locate_vars, slice_vars, symlinks_ok, image, idx, ret, processed, run,
                   fs_done, firmware_file>>

\* lines 136-142: save the payload if there is one, go on in either case
SaveLzma ==
    /\ pc = "lzma_ret"
    /\ IF ~lzma_data.none /\ lzma_data.data # <<>>
       THEN Saved(WriteFile(fs, lzma_path, <<BytesChunk(lzma_data.data)>>),
                  "LZMA section saved", lzma_path, "squashfs")
       ELSE /\ fs' = fs
            /\ pc' = "squashfs"
            /\ log' = Append(log, [title |-> "LZMA extraction failed, continuing with SquashFS extraction",
                                   value |-> ""])
    /\ UNCHANGED <<locate_vars, slice_vars, symlinks_ok, image, idx, ret, processed, run,
                   fs_done, result, firmware_file>>

\* lines 144-151: slice the SquashFS segment, save it, call extract_squashfs_contents
SaveSquashfs ==
    /\ pc = "squashfs"
    /\ sq_offset' = SQUASHFS_OFFSET
    /\ sq_size' = SQUASHFS_SIZE
    /\ squashfs_data' = extract_squashfs_section(firmware_data, SQUASHFS_OFFSET, SQUASHFS_SIZE)
    /\ Saved(WriteFile(fs, squashfs_path, <<BytesChunk(squashfs_data')>>),
             "SquashFS filesystem saved", squashfs_path, "contents")
    /\ UNCHANGED <<locate_vars, symlinks_ok, image, idx, ret, processed, run, fs_done,
                   result, firmware_file>>

\* lines 152-153: the result of extract_squashfs_contents is not looked at
Finish ==
    /\ pc = "contents_ret"
    /\ log' = Append(log, [title |-> "Extraction process completed", value |-> ""])
    /\ result' = True
    /\ pc' = "done"
    /\ UNCHANGED <<locate_vars, slice_vars, disk_vars, firmware_file>>

\* The program is run again on the same firmware, over the output directory the
\* earlier run left: the same two files are written again, and
\* extract_squashfs_contents is called on the same container.
Rerun ==
    /\ pc = "contents_ret"
    /\ run < MaxRuns
    /\ run' = run + 1
    /\ fs_done' = fs
    /\ ret' = None
    /\ pc' = "contents"
    /\ UNCHANGED <<locate_vars, slice_vars, fs, symlinks_ok, image, idx, processed, log,
                   result, firmware_file>>

---------------------------------------------------------------------------
(* The inputs: firmware files, containers, and what is on the disk at the start. *)


\* Firmware files: empty, shorter than the LZMA offset, ending before the
\* SquashFS segment, ending within it, ending with it, and going on after it.
Firmwares ==
    { <<>>,
      <<Run(0, 100)>>,
      <<Run(0, LZMA_OFFSET), Run(1, 20)>>,
      <<Run(0, LZMA_OFFSET), Run(1, SQUASHFS_OFFSET - LZMA_OFFSET), Run(2, 1000)>>,
      <<Run(0, LZMA_OFFSET), Run(1, SQUASHFS_OFFSET - LZMA_OFFSET), Run(2, SQUASHFS_SIZE)>>,
      <<Run(0, LZMA_OFFSET - 13), Run(1, SQUASHFS_OFFSET - LZMA_OFFSET + 13), Run(2, SQUASHFS_SIZE),
        Run(3, 64)>> }

Item(path, kind, blocks, link, bad) ==
    [path |-> path, kind |-> kind, blocks |-> blocks, link |-> link, bad |-> bad]

\* The entries an image is made of: the root, a directory, a file in it (whose
\* content can or cannot be read to its end), a link with a relative or an absolute
\* target, a link whose target cannot be read, a file whose path leaves the
\* root through "..", and a device node.
EntryPool ==
    { Item(<<"/">>, "dir", <<>>, <<>>, FALSE),
      Item(<<"/", "a">>, "dir", <<>>, <<>>, FALSE),
      Item(<<"/", "a", "/", "b.txt">>, "file", <<BytesChunk(<<Run(104, 1)>>), BytesChunk(<<Run(105, 1)>>)>>, <<>>, FALSE),
      Item(<<"/", "a", "/", "b.txt">>, "file", <<BytesChunk(<<Run(104, 1)>>)>>, <<>>, TRUE),
      Item(<<"/", "l">>, "symlink", <<>>, <<"a", "/", "b.txt">>, FALSE),
      Item(<<"/", "l">>, "symlink", <<>>, <<"/", "tmp", "/", "x">>, FALSE),
      Item(<<"/", "l">>, "symlink", <<>>, <<>>, TRUE),
      Item(<<"/", "..", "/", "x">>, "file", <<BytesChunk(<<Run(104, 1)>>)>>, <<>>, FALSE),
      Item(<<"/", "d">>, "other", <<>>, <<>>, FALSE) }

IsPrefix(s, t) == Len(s) < Len(t) /\ SubSeq(t, 1, Len(s)) = s

\* an image names each path once, and only a directory has entries below it
TreeConsistent(img) ==
    \A j, k \in DOMAIN img :
        j # k => /\ Segments(img[j].path) # Segments(img[k].path)
                 /\ IsPrefix(Segments(img[j].path), Segments(img[k].path)) => img[j].kind = "dir"

Images(n) == {img \in UNION {[1..m -> EntryPool] : m \in 0..n} : TreeConsistent(img)}

OutputLoc == Append(Cwd, "extracted_firmware")
RootLoc == Append(OutputLoc, "squashfs_contents")

FsOf(pairs) == [l \in {p[1] : p \in pairs} |-> (CHOOSE p \in pairs : p[1] = l)[2]]

\* after Firmware.__init__: the output directory exists; the host has a /tmp
BaseDisk ==
    { <<<<>>, [kind |-> "dir"]>>, <<Cwd, [kind |-> "dir"]>>, <<<<"tmp">>, [kind |-> "dir"]>>,
      <<OutputLoc, [kind |-> "dir"]>> }

\* the two files an earlier run of the program left
StaleOutputs ==
    { <<Append(OutputLoc, "extracted_lzma.bin"), [kind |-> "file", data |-> <<BytesChunk(<<Run(9, 7)>>)>>]>>,
      <<Append(OutputLoc, "filesystem.squashfs"), [kind |-> "file", data |-> <<BytesChunk(<<Run(9, 9)>>)>>]>> }

\* what else may be in the way below the extraction root
InTheWay ==
    { {},
      {<<RootLoc, [kind |-> "dir"]>>, <<Append(RootLoc, "l"), [kind |-> "dir"]>>},
      {<<RootLoc, [kind |-> "dir"]>>, <<Append(RootLoc, "l"), [kind |-> "file", data |-> <<BytesChunk(<<Run(111, 3)>>)>>]>>},
      {<<RootLoc, [kind |-> "dir"]>>, <<Append(RootLoc, "a"), [kind |-> "file", data |-> <<BytesChunk(<<Run(111, 3)>>)>>]>>},
      {<<RootLoc, [kind |-> "dir"]>>, <<Append(RootLoc, "a"), [kind |-> "dir"]>>,
       <<RootLoc \o <<"a", "b.txt">>, [kind |-> "dir"]>>} }

---------------------------------------------------------------------------
(* The specifications. *)

\* the buffers of at most three runs of 1..MaxRun bytes over three byte values
SmallBuffers ==
    LET Runs == [b : 0..2, n : 1..MaxRun]
        Canonical(s) == \A k \in 1..(Len(s) - 1) : s[k].b # s[k + 1].b
    IN  {s \in UNION {[1..m -> Runs] : m \in 0..3} : Canonical(s)}

IdleLocate ==
    /\ offset = 0 /\ uncompressed_size = 0 /\ cand = 1 /\ decoded = <<>> /\ lzma_data = NoBytes
IdleSlice ==
    /\ sq_offset = 0 /\ sq_size = 0 /\ squashfs_data = <<>>
IdleDisk ==
    /\ fs = FsOf(BaseDisk) /\ symlinks_ok = TRUE /\ image = Malformed /\ idx = 1 /\ ret = None
    /\ processed = <<>> /\ run = 1 /\ fs_done = <<>>

\* extract_lzma_section alone, on any buffer and nominal offset
InitLocate ==
    /\ pc = "lzma"
    /\ \E len \in 0..MaxLen : firmware_data = IF len = 0 THEN <<>> ELSE <<Run(0, len)>>
    /\ firmware_file = File(firmware_data)
    /\ offset \in 0..MaxOffset
    /\ uncompressed_size \in {3, UNCOMPRESSED_SIZE}
    /\ cand = 1
    /\ decoded = <<>>
    /\ lzma_data = NoBytes
    /\ IdleSlice /\ IdleDisk
    /\ result = None
    /\ log = <<>>

SpecLocate == InitLocate /\ [][TryOffset \/ LocateNotFound]_vars

\* extract_squashfs_section alone, on any buffer, offset and size
InitSlice ==
    /\ pc = "slice"
    /\ firmware_data \in SmallBuffers
    /\ firmware_file = File(firmware_data)
    /\ sq_offset \in 0..MaxArg
    /\ sq_size \in 0..MaxArg
    /\ squashfs_data = <<>>
    /\ IdleLocate /\ IdleDisk
    /\ result = None
    /\ log = <<>>

SpecSlice == InitSlice /\ [][ExtractSection]_vars

\* extract_squashfs_contents on a container already saved, run after run
InitMaterialize ==
    /\ pc = "contents"
    /\ firmware_data = <<Run(5, 8)>> /\ firmware_file = File(firmware_data)
    /\ IdleLocate
    /\ sq_offset = 0 /\ sq_size = 8 /\ squashfs_data = firmware_data
    /\ \E way \in InTheWay :
         fs = FsOf(BaseDisk \cup way
                   \cup {<<Append(OutputLoc, "filesystem.squashfs"),
                           [kind |-> "file", data |-> <<BytesChunk(squashfs_data)>>]>>})
    /\ symlinks_ok \in BOOLEAN
    /\ image \in {Image(e) : e \in Images(MaxEntries)} \cup {Malformed}
    /\ idx = 1 /\ ret = None /\ processed = <<>> /\ run = 1 /\ fs_done = <<>>
    /\ result = None
    /\ log = <<>>

NextMaterialize == MaterializeStart \/ ProcessItem \/ MaterializeDone \/ Rerun

SpecMaterialize == InitMaterialize /\ [][NextMaterialize]_vars

\* the program: Firmware(firmware_path).extract_firmware()
Init ==
    /\ pc = "start"
    /\ firmware_file \in {File(d) : d \in Firmwares} \cup {Unreadable}
    /\ firmware_data = <<>>
    /\ IdleLocate /\ IdleSlice
    /\ \E stale \in SUBSET StaleOutputs : fs = FsOf(BaseDisk \cup stale)
    /\ symlinks_ok \in BOOLEAN
    /\ image \in {Image(e) : e \in Images(PipelineEntries)} \cup {Malformed}
    /\ idx = 1 /\ ret = None /\ processed = <<>> /\ run = 1 /\ fs_done = <<>>
    /\ result = None
    /\ log = <<>>

Next ==
    \/ ReadFirmware
    \/ TryOffset
    \/ LocateNotFound
    \/ SaveLzma
    \/ SaveSquashfs
    \/ MaterializeStart
    \/ ProcessItem
    \/ MaterializeDone
    \/ Finish

Spec == Init /\ [][Next]_vars

---------------------------------------------------------------------------
(* The properties. *)

\* the offsets the loop of extract_lzma_section has tried, in order (its log lines)
Tried == SelectSeq(log, LAMBDA e : e.title = "Trying offset")
TriedSlice(k) == PySliceFrom(firmware_data, Tried[k].value)
Succeeded(out) == ~out.raised /\ out.data # <<>>
Logged(title) == \E k \in DOMAIN log : log[k].title = title
Last(s) == s[Len(s)]
UnderRoot(loc) == Len(loc) >= Len(RootLoc) /\ SubSeq(loc, 1, Len(RootLoc)) = RootLoc

\* C3: extract_lzma_section tries the nominal offset first, then the two offsets
\* at distance 1, then the two at distance 13; every offset tried before the last
\* one failed (raised or gave nothing); and when it returns a payload, the payload
\* is what the last offset tried decoded to, so no later candidate is tried and the
\* first candidate that decodes wins.  It returns None only after all five failed.
C3_FirstSuccessInOrder ==
    LET n == Len(Tried) IN
    /\ n <= 5
    /\ n >= 1 => Tried[1].value = offset
    /\ \A k \in 2..3 : k <= n => Tried[k].value \in {offset - 1, offset + 1}
    /\ n >= 3 => Tried[2].value # Tried[3].value
    /\ \A k \in 4..5 : k <= n => Tried[k].value \in {offset - 13, offset + 13}
    /\ n >= 5 => Tried[4].value # Tried[5].value
    /\ \A k \in 1..(n - 1) : ~Succeeded(decoded[TriedSlice(k)])
    /\ pc = "lzma" => n = cand - 1 /\ (n >= 1 => ~Succeeded(decoded[TriedSlice(n)]))
    /\ pc = "lzma_ret" =>
         IF lzma_data.none
         THEN n = 5 /\ ~Succeeded(decoded[TriedSlice(n)])
         ELSE /\ n >= 1
              /\ Succeeded(decoded[TriedSlice(n)])
              /\ lzma_data.data = decoded[TriedSlice(n)].data

\* C3, its case: the nominal offset and the one before it failed, the one after
\* it decoded, and its payload is returned
C3_Witness_ThirdCandidate ==
    /\ pc = "lzma_ret"
    /\ ~lzma_data.none
    /\ Len(Tried) = 3
    /\ Tried[3].value = offset + 1

\* a stream that decodes to a non-empty payload starts at offset c of the buffer
StreamStartsAt(c) ==
    /\ c \in 0..(BLen(firmware_data) - 1)
    /\ Drop(firmware_data, c) \in DOMAIN decoded
    /\ Succeeded(decoded[Drop(firmware_data, c)])

\* C4: extract_lzma_section returns a payload if and only if a stream that
\* decodes to a non-empty payload starts at one of the five offsets nominal,
\* nominal-1, nominal+1, nominal-13, nominal+13 of the buffer; otherwise it
\* returns None.  (The expected size is not looked at.)
C4_FoundIffStreamAtOneOfFive ==
    pc = "lzma_ret" =>
        (~lzma_data.none <=>
            \E c \in {offset, offset - 1, offset + 1, offset - 13, offset + 13} : StreamStartsAt(c))

\* C5: extract_squashfs_section returns the bytes of the buffer from offset up to
\* offset+size, or up to the end of the buffer when that comes first, and leaves
\* the buffer as it was.
C5_SliceIsExact ==
    [][pc = "slice" =>
         /\ Unpack(squashfs_data') =
               SubSeq(Unpack(firmware_data), sq_offset + 1,
                      Min(sq_offset + sq_size, Len(Unpack(firmware_data))))
         /\ firmware_data' = firmware_data]_vars

\* C5, its case: the range asked for runs over the end of the buffer and the
\* shorter slice is returned
C5_Witness_ShorterSlice ==
    /\ pc = "slice_ret"
    /\ sq_offset + sq_size > BLen(firmware_data)
    /\ squashfs_data # <<>>
    /\ BLen(squashfs_data) < sq_size

\* C1: when extract_squashfs_contents has opened the image and returns, every
\* entry of the image has been taken up by the loop, whatever happened to the
\* entries before it.
C1_EveryEntryProcessed ==
    (pc = "contents_ret" /\ Logged("Extracting files")) =>
        Len(processed) = Len(image.entries)

\* C2: an entry whose path has a ".." segment changes nothing on the disk, and
\* whatever the loop changes lies under extracted_firmware/squashfs_contents.
C2_NothingOutsideRoot ==
    \A k \in DOMAIN processed :
        /\ (\E j \in DOMAIN processed[k].item.path : processed[k].item.path[j] = "..")
               => processed[k].changed = {}
        /\ \A loc \in processed[k].changed : UnderRoot(loc)

\* C6: when extract_squashfs_contents returns True and no link entry was logged
\* as failed, the node at the path of every directory entry is a directory, of
\* every file entry a regular file, of every link entry a link or a regular file.
C6_NodeTypesMatch ==
    (pc = "contents_ret" /\ ret = True
       /\ \A k \in DOMAIN processed : processed[k].result # "error") =>
        \A k \in DOMAIN image.entries :
            LET item == image.entries[k]
                node == NodeAt(fs, TargetPath(item))
            IN  /\ item.kind = "dir" => node.kind = "dir"
                /\ item.kind = "file" => node.kind = "file"
                /\ item.kind = "symlink" => node.kind \in {"link", "file"}

\* C7: _handle_symlink does not raise; when it made the link, the node at
\* target_path is a link to the entry's target; when the link could not be made
\* and the file was written in its place, the node at target_path is a regular
\* file holding "Symlink to: <target>".
C7_LinkOrPlaceholder ==
    processed # <<>> =>
        LET r == Last(processed)
            node == NodeAt(fs, TargetPath(r.item))
        IN  (r.item.kind = "symlink" /\ r.result # "raised") =>
              /\ r.result \in {"linked", "fallback", "error"}
              /\ r.result = "linked" => node = [kind |-> "link", target |-> r.item.link]
              /\ r.result = "fallback" =>
                   node = [kind |-> "file",
                           data |-> <<TextChunk(<<"Symlink to: ">> \o r.item.link)>>]

\* C10: on a host that creates links, a file or a link (dangling or not) found at
\* target_path is removed, so that the link is made and target_path is a link to
\* the entry's target; and a second run over an image of links leaves the disk
\* as the first run left it.
C10_ExistingNodeReplaced ==
    /\ processed # <<>> =>
         LET r == Last(processed)
         IN  (symlinks_ok /\ r.item.kind = "symlink" /\ ~r.item.bad
                /\ r.result # "raised" /\ r.before.kind \in {"file", "link"}) =>
               /\ r.result = "linked"
               /\ NodeAt(fs, TargetPath(r.item)) = [kind |-> "link", target |-> r.item.link]
    /\ (symlinks_ok /\ run = 2 /\ pc = "contents_ret" /\ ret = True
          /\ \A k \in DOMAIN image.entries :
                image.entries[k].kind = "symlink" /\ ~image.entries[k].bad) =>
         fs = fs_done

C9_MalformedContainer ==
    /\ pc # "crashed"
    /\ (pc \in {"contents_ret", "done"} /\ Logged("Attempting to extract SquashFS contents")
          /\ from_file(fs, squashfs_path, image) = Malformed) =>
         /\ ret = False
         /\ processed = <<>>
         /\ NodeAt(fs, squashfs_path) = [kind |-> "file", data |-> <<BytesChunk(squashfs_data)>>]
         /\ ~lzma_data.none =>
               NodeAt(fs, lzma_path) = [kind |-> "file", data |-> <<BytesChunk(lzma_data.data)>>]
         /\ pc = "done" => result = True

\* C9, its case: the payload file and a non-empty SquashFS file were saved, and
\* the codec could not open the container
C9_Witness_MalformedAfterOutputs ==
    /\ pc = "done"
    /\ image.malformed
    /\ ret = False
    /\ ~lzma_data.none
    /\ squashfs_data # <<>>

=============================================================================
